---- MODULE Spec2Model ----
(***************************************************************************)
(* trek: database migrations.  Model of the snapshot with the running     *)
(* flag (src/unnamed/part_003): the process-wide registry, the            *)
(* migrations history table and one Run, split at its blocking database   *)
(* statements so that a failure or the death of the process can fall      *)
(* between any two of them.                                                *)
(***************************************************************************)
EXTENDS Integers, Sequences, FiniteSets, TLC

\* ------------------------------------------------------------------ bounds
MaxVersion == 2
MaxMigrations == 2
MaxRows == 6
MaxInserts == 3
MaxOptions == 3

\* --------------------------------------------------------------- constants
UP == "up"
DOWN == "down"
POSTGRES == "postgres"
MYSQL == "mysql"

ErrNil == <<"nil">>
errUnrecognizedDatabase == <<"trek: unrecognized database">>
errUnrecognizedAction == <<"trek: unrecognized action">>
errPreviousMigrationNotFound == <<"trek: previous migration not found">>
errVersionAlreadyRegistered == <<"trek: version already registered">>
errMigrationAlreadyRunning == <<"trek: migration already running">>
\* an error of the SQL driver, named by the statement that failed
DriverError(stmt) == <<"driver", stmt>>
\* the error returned by the up or down procedure of the migration at version v
HandlerError(dir, v) == <<"handler", dir, v>>

\* versions passed to Register; a procedure is TRUE when present, FALSE when nil
Versions == 0..MaxVersion
\* the option lists Run is called with
Calls == {<<>>, <<POSTGRES, UP>>, <<POSTGRES, DOWN>>, <<MYSQL, UP>>, <<MYSQL, DOWN>>}

\* migrations: the registry; tableExists, rows: the migrations table (a row's id
\* is its index); pc, config, oldVersion, newVersion, i: the Run in progress;
\* obs: what the Run in progress has done so far; result: what the last Run
\* returned; hist: what has happened to the database since it was created;
\* other: the Run of a second process on the same database; older: the older
\* snapshot of the package on a database of its own
VARIABLES migrations, tableExists, rows, pc, config, oldVersion, newVersion,
          i, obs, result, hist, other, older

vars == <<migrations, tableExists, rows, pc, config, oldVersion, newVersion,
          i, obs, result, hist, other, older>>

\* ------------------------------------------------------------ pure helpers
migration(version, up, down) == [Version |-> version, Up |-> up, Down |-> down]

\* the loop over the registry never entered
versionAlreadyRegisteredNever(version) == FALSE

\* the loop over the registry started at the second entry
versionAlreadyRegisteredFromSecond(version) ==
    \E k \in 2..Len(migrations) : migrations[k].Version = version

versionAlreadyRegistered(version) ==
    \E k \in 1..Len(migrations) : migrations[k].Version = version

\* the comparison reversed
LessDescending(a, b) == a.Version > b.Version

Less(a, b) == a.Version < b.Version

RECURSIVE Insert(_, _)
Insert(s, x) ==
    IF s = <<>> THEN <<x>>
    ELSE IF Less(x, Head(s)) THEN <<x>> \o s
    ELSE <<Head(s)>> \o Insert(Tail(s), x)

\* the registry left in registration order
byVersionUnsorted(s) == s

RECURSIVE byVersion(_)
byVersion(s) ==
    IF s = <<>> THEN <<>>
    ELSE Insert(byVersion(SubSeq(s, 1, Len(s) - 1)), s[Len(s)])

defaultConfig == [Action |-> UP, Database |-> POSTGRES]

\* the DOWN case writes the database and the MYSQL case the action
parseOptionSwapped(cfg, opt) ==
    IF opt = DOWN THEN [cfg EXCEPT !.Database = opt]
    ELSE IF opt = MYSQL THEN [cfg EXCEPT !.Action = opt]
    ELSE cfg

\* the UP and POSTGRES cases assign like the other two: the last token wins
parseOptionLastWins(cfg, opt) ==
    IF opt \in {UP, DOWN} THEN [cfg EXCEPT !.Action = opt]
    ELSE IF opt \in {POSTGRES, MYSQL} THEN [cfg EXCEPT !.Database = opt]
    ELSE cfg

\* one iteration of the switch: the UP and POSTGRES cases are empty
parseOption(cfg, opt) ==
    IF opt = DOWN THEN [cfg EXCEPT !.Action = opt]
    ELSE IF opt = MYSQL THEN [cfg EXCEPT !.Database = opt]
    ELSE cfg

\* the break of a case leaves the loop, not the switch
RECURSIVE parseFromBreaks(_, _)
parseFromBreaks(cfg, options) ==
    IF options = <<>> THEN cfg
    ELSE IF Head(options) \in {DOWN, MYSQL} THEN parseOption(cfg, Head(options))
    ELSE parseFromBreaks(cfg, Tail(options))

RECURSIVE parseFrom(_, _)
parseFrom(cfg, options) ==
    IF options = <<>> THEN cfg
    ELSE parseFrom(parseOption(cfg, Head(options)), Tail(options))

parseOptions(options) == parseFrom(defaultConfig, options)

\* an error where the table exists
createTableIfAbsent(database, existed, table, driverOk) ==
    IF database \notin {POSTGRES, MYSQL}
    THEN [err |-> errUnrecognizedDatabase, exists |-> existed, table |-> table]
    ELSE IF driverOk /\ ~existed
    THEN [err |-> ErrNil, exists |-> TRUE, table |-> table]
    ELSE [err |-> DriverError("create"), exists |-> existed, table |-> table]

\* the default branch missing: the statement of no dialect is executed
createTableAnyDialect(database, existed, table, driverOk) ==
    IF driverOk THEN [err |-> ErrNil, exists |-> TRUE, table |-> table]
    ELSE [err |-> DriverError("create"), exists |-> existed, table |-> table]

\* createTable: the error, whether the table exists afterwards and its rows
\* (CREATE TABLE IF NOT EXISTS leaves a table that exists as it is)
createTable(database, existed, table, driverOk) ==
    IF database \notin {POSTGRES, MYSQL}
    THEN [err |-> errUnrecognizedDatabase, exists |-> existed, table |-> table]
    ELSE IF driverOk THEN [err |-> ErrNil, exists |-> TRUE, table |-> table]
    ELSE [err |-> DriverError("create"), exists |-> existed, table |-> table]

\* the rows read in ascending order of id: the first row, not the last
getVersionFirstRow(table, driverOk) ==
    IF ~driverOk THEN [currentVersion |-> 0, err |-> DriverError("select")]
    ELSE IF table = <<>> THEN [currentVersion |-> 0, err |-> ErrNil]
    ELSE IF table[1].running
    THEN [currentVersion |-> table[1].version,
          err |-> errMigrationAlreadyRunning]
    ELSE [currentVersion |-> table[1].version, err |-> ErrNil]

\* the running column not read
getVersionNoFlag(table, driverOk) ==
    IF ~driverOk THEN [currentVersion |-> 0, err |-> DriverError("select")]
    ELSE IF table = <<>> THEN [currentVersion |-> 0, err |-> ErrNil]
    ELSE [currentVersion |-> table[Len(table)].version, err |-> ErrNil]

\* getVersion: SELECT version, running ... ORDER BY id DESC LIMIT 1
getVersion(table, driverOk) ==
    IF ~driverOk THEN [currentVersion |-> 0, err |-> DriverError("select")]
    ELSE IF table = <<>> THEN [currentVersion |-> 0, err |-> ErrNil]
    ELSE IF table[Len(table)].running
    THEN [currentVersion |-> table[Len(table)].version,
          err |-> errMigrationAlreadyRunning]
    ELSE [currentVersion |-> table[Len(table)].version, err |-> ErrNil]

\* the last row updated in place when there is one
setVersionUpdate(database, table, version, running, driverOk) ==
    IF database \notin {POSTGRES, MYSQL}
    THEN [err |-> errUnrecognizedDatabase, table |-> table]
    ELSE IF driverOk
    THEN [err |-> ErrNil,
          table |-> IF table = <<>>
                    THEN <<[version |-> version, running |-> running]>>
                    ELSE [table EXCEPT ![Len(table)] =
                              [version |-> version, running |-> running]]]
    ELSE [err |-> DriverError("insert"), table |-> table]

\* the running column written true whatever is asked
setVersionAlwaysRunning(database, table, version, running, driverOk) ==
    IF database \notin {POSTGRES, MYSQL}
    THEN [err |-> errUnrecognizedDatabase, table |-> table]
    ELSE IF driverOk
    THEN [err |-> ErrNil,
          table |-> Append(table, [version |-> version, running |-> TRUE])]
    ELSE [err |-> DriverError("insert"), table |-> table]

\* setVersion: the error and the table afterwards (one INSERT)
setVersion(database, table, version, running, driverOk) ==
    IF database \notin {POSTGRES, MYSQL}
    THEN [err |-> errUnrecognizedDatabase, table |-> table]
    ELSE IF driverOk
    THEN [err |-> ErrNil,
          table |-> Append(table, [version |-> version, running |-> running])]
    ELSE [err |-> DriverError("insert"), table |-> table]

\* the check of Run's first statement left out
registryIsEmptyNever(reg) == FALSE

\* len(migrations) == 0, the condition Run returns at once under
registryIsEmpty(reg) == Len(reg) = 0

\* only a missing up procedure passed over, whatever the version
upSkipsNoUp(m, old) == ~m.Up

\* the current version not passed over
upSkipsBelow(m, old) == m.Version < old \/ ~m.Up

\* runUp's loop head: the migration is passed over
upSkips(m, old) == m.Version <= old \/ ~m.Up

\* index of the first migration at or after k that runUp does not pass over,
\* Len(migrations) + 1 when the loop ends
RECURSIVE upNext(_, _)
upNext(k, old) ==
    IF k > Len(migrations) THEN k
    ELSE IF upSkips(migrations[k], old) THEN upNext(k + 1, old)
    ELSE k

\* newVersion = oldVersion at the head of runUp and, past the floor, of runDown
\* newVersion left at its zero value
runUpInitZero(old) == 0

runUpInit(old) == old

\* newVersion left at its zero value
runDownInitZero(old) == 0

runDownInit(old) == old

\* the floor not checked
downIsNoopNever(old) == FALSE

\* runDown's floor: nothing to revert
downIsNoop(old) == old = 0

\* only the migration of the current version itself found
downMatchesExact(m, old) == m.Version = old

\* the comparison reversed
downMatchesAbove(m, old) == m.Version >= old

downMatches(m, old) == m.Version <= old

\* the scan stopping at the lowest match instead of the greatest
downFindLowest(k, old) ==
    IF \A j \in 1..k : ~downMatches(migrations[j], old) THEN 0
    ELSE CHOOSE j \in 1..k : /\ downMatches(migrations[j], old)
                             /\ \A h \in 1..(j - 1) : ~downMatches(migrations[h], old)

\* runDown's scan from the end: index of the migration found, 0 when m == nil
RECURSIVE downFind(_, _)
downFind(k, old) ==
    IF k < 1 THEN 0
    ELSE IF downMatches(migrations[k], old) THEN k
    ELSE downFind(k - 1, old)

\* ------------------------------------------------------------ observation
LastRunning(table) == table /= <<>> /\ table[Len(table)].running

\* exec: the procedures called, in order; rows0: the rows in the table when the
\* Run began; failure: the statement or procedure that failed under the Run;
\* unsorted0, blocked0, interrupted0, afterUp, prevNew, applied0: the registry,
\* the table, the previous Run and the versions applied as they were when the
\* Run began
obsIdle == [exec |-> <<>>, rows0 |-> 0, failure |-> "none", unsorted0 |-> FALSE,
            blocked0 |-> FALSE, interrupted0 |-> FALSE, afterUp |-> FALSE,
            prevNew |-> 0, applied0 |-> {}]

\* what the last call of Register returned, when no call of Run or change of
\* the registry came after it
noRegister == [called |-> FALSE, version |-> 0, err |-> ErrNil]

registerReturned(version, e) == [called |-> TRUE, version |-> version, err |-> e]

noResult == [ret |-> "none", didChange |-> FALSE, newVersion |-> 0,
             err |-> ErrNil, action |-> UP, nonEmpty |-> FALSE,
             engine |-> FALSE, old |-> 0, obs |-> obsIdle, reg |-> noRegister,
             options |-> <<>>]

\* the Run of a second process on the same database: its position, its own
\* registry and the locals of its call, the procedures it called, what it
\* returned, and raced: it read the version while the Run of the first
\* process had read the same version and not yet written a row
otherIdle == [pc |-> "idle", migrations |-> <<>>, oldVersion |-> 0,
              newVersion |-> 0, i |-> 0, exec |-> <<>>, ret |-> "none",
              err |-> ErrNil, raced |-> FALSE]

\* the older snapshot of the package (src/trek.go) called on a database of
\* its own: the rows of its migrations table, which have no running column,
\* the position and the locals of its Run, the procedures the Run called and
\* what it returned; clean: no statement or procedure of its Runs has failed
olderIdle == [pc |-> "idle", config |-> defaultConfig, tableExists |-> FALSE,
              rows |-> <<>>, oldVersion |-> 0, exec |-> <<>>, ret |-> "none",
              didChange |-> FALSE, newVersion |-> 0, err |-> ErrNil,
              clean |-> TRUE]

\* the versions whose up procedure this process has called more recently
\* than their down procedure, after the calls of exec are made on the set s;
\* hist.applied follows the Runs as long as none of them has failed or died
\* and the registry has not changed since the first, and is {} from then on
RECURSIVE appliedAfter(_, _)
appliedAfter(s, exec) ==
    IF exec = <<>> THEN s
    ELSE LET call == Head(exec) IN
         appliedAfter(IF call[1] = UP THEN s \cup {call[2]} ELSE s \ {call[2]},
                      Tail(exec))

\* ------------------------------------------------------------------- state
Init ==
    /\ migrations = <<>>
    /\ tableExists = FALSE
    /\ rows = <<>>
    /\ pc = "idle"
    /\ config = defaultConfig
    /\ oldVersion = 0
    /\ newVersion = 0
    /\ i = 0
    /\ obs = obsIdle
    /\ result = noResult
    /\ hist = [interrupted |-> FALSE, ran |-> FALSE, clean |-> TRUE,
               passed |-> {}, applied |-> {}]
    /\ other = otherIdle
    /\ older = olderIdle

\* the registry is changed: what the last Run returned no longer describes it;
\* passed: the versions Register was called with since the registry was empty
RegistryChanged(reg, passed) ==
    /\ result' = [noResult EXCEPT !.reg = reg]
    /\ hist' = [hist EXCEPT !.clean = hist.clean /\ ~hist.ran,
                            !.passed = passed,
                            !.applied = IF hist.clean /\ ~hist.ran
                                        THEN hist.applied ELSE {}]

\* Register(version, up, down); the error is what the call returns
Register(version, up, down) ==
    /\ pc = "idle"
    /\ IF versionAlreadyRegistered(version)
       THEN /\ result' = [result EXCEPT !.reg =
                   registerReturned(version, errVersionAlreadyRegistered)]
            /\ hist' = [hist EXCEPT !.passed = hist.passed \cup {version}]
            /\ UNCHANGED migrations
       ELSE /\ migrations' = Append(migrations, migration(version, up, down))
            /\ RegistryChanged(registerReturned(version, ErrNil),
                               hist.passed \cup {version})
    /\ UNCHANGED <<tableExists, rows, pc, config, oldVersion, newVersion, i, obs,
                   other, older>>

\* the test harness empties the registry between Runs
ResetRegistry ==
    /\ pc = "idle"
    /\ migrations /= <<>>
    /\ migrations' = <<>>
    /\ RegistryChanged(noRegister, {})
    /\ UNCHANGED <<tableExists, rows, pc, config, oldVersion, newVersion, i, obs,
                   other, older>>

\* Run returns (didChange, nv, e), having done o; the locals of the call are gone
Return(didChange, nv, e, engine, interrupted, o) ==
    /\ pc' = "idle"
    /\ result' = [ret |-> "returned", didChange |-> didChange, newVersion |-> nv,
                  err |-> e, action |-> config.Action, nonEmpty |-> TRUE,
                  engine |-> engine, old |-> oldVersion, obs |-> o,
                  reg |-> noRegister, options |-> <<>>]
    /\ hist' = [hist EXCEPT !.interrupted = hist.interrupted \/ interrupted,
                            !.clean = hist.clean /\ o.failure = "none",
                            !.applied =
                                IF hist.clean /\ o.failure = "none"
                                THEN appliedAfter(hist.applied, o.exec)
                                ELSE {}]
    /\ config' = defaultConfig
    /\ oldVersion' = 0
    /\ newVersion' = 0
    /\ i' = 0
    /\ obs' = obsIdle
    /\ UNCHANGED <<other, older>>

\* the Run goes on to its next statement
Goto(label) ==
    /\ pc' = label
    /\ UNCHANGED <<result, hist, other, older>>

Failed(o, what) == [o EXCEPT !.failure = what]

Called(o, dir, v) == [o EXCEPT !.exec = Append(o.exec, <<dir, v>>)]

\* Run, up to its first statement on the database
Run(options) ==
    /\ pc = "idle"
    /\ IF registryIsEmpty(migrations)
       THEN /\ result' = [noResult EXCEPT !.ret = "returned",
                              !.action = parseOptions(options).Action,
                              !.obs.rows0 = Len(rows),
                              !.obs.afterUp = (result.ret = "returned"
                                  /\ result.action = UP /\ result.err = ErrNil),
                              !.obs.prevNew = result.newVersion,
                              !.obs.applied0 = hist.applied]
            /\ UNCHANGED <<migrations, pc, config, oldVersion, newVersion, i,
                           obs, hist>>
       ELSE /\ migrations' = byVersion(migrations)
            /\ config' = parseOptions(options)
            /\ pc' = "createTable"
            /\ oldVersion' = 0
            /\ newVersion' = 0
            /\ i' = 0
            /\ obs' = [exec |-> <<>>, rows0 |-> Len(rows), failure |-> "none",
                       unsorted0 |-> (migrations /= byVersion(migrations)),
                       blocked0 |-> LastRunning(rows),
                       interrupted0 |-> hist.interrupted,
                       afterUp |-> (result.ret = "returned"
                                    /\ result.action = UP /\ result.err = ErrNil),
                       prevNew |-> result.newVersion,
                       applied0 |-> hist.applied]
            /\ hist' = [hist EXCEPT !.ran = TRUE]
            /\ result' = noResult
    /\ other' = [other EXCEPT !.raced = FALSE]
    /\ UNCHANGED <<tableExists, rows, older>>

\* the version recorded in the history reported by a return before the engine
namedResultsAtRecorded ==
    [didChange |-> FALSE,
     newVersion |-> IF rows = <<>> THEN 0 ELSE rows[Len(rows)].version]

\* Run's named results didChange and newVersion as a bare return finds them
\* before runMigrations has assigned them: their zero values
namedResults == [didChange |-> FALSE, newVersion |-> 0]

\* err = createTable(dtbs); if err != nil { return }
CreateTable ==
    /\ pc = "createTable"
    /\ \E driverOk \in BOOLEAN :
        LET r == createTable(config.Database, tableExists, rows, driverOk) IN
        /\ tableExists' = r.exists
        /\ rows' = r.table
        /\ IF r.err /= ErrNil
           THEN Return(namedResults.didChange, namedResults.newVersion, r.err,
                       FALSE, FALSE,
                       IF driverOk THEN obs ELSE Failed(obs, "create"))
           ELSE /\ Goto("getVersion")
                /\ UNCHANGED <<config, oldVersion, newVersion, i, obs>>
    /\ UNCHANGED migrations

\* oldVersion, err := getVersion(dtbs); if err != nil { return }
GetVersion ==
    /\ pc = "getVersion"
    /\ \E driverOk \in BOOLEAN :
        LET r == getVersion(rows, driverOk) IN
        IF r.err /= ErrNil
        THEN /\ Return(namedResults.didChange, namedResults.newVersion, r.err,
                       FALSE, FALSE,
                       IF driverOk THEN obs ELSE Failed(obs, "select"))
        ELSE /\ oldVersion' = r.currentVersion
             /\ Goto("runMigrations")
             /\ UNCHANGED <<config, newVersion, i, obs>>
    /\ UNCHANGED <<migrations, tableExists, rows>>

\* the migration runDown reverts
Found == migrations[i]

\* runMigrations: the switch on db.Action, up to the first statement of
\* runUp or runDown on the database
RunMigrations ==
    /\ pc = "runMigrations"
    /\ IF config.Action = UP
       THEN /\ newVersion' = runUpInit(oldVersion)
            /\ i' = 1
            /\ Goto("runUp")
            /\ UNCHANGED <<config, oldVersion, obs>>
       ELSE IF config.Action = DOWN
       THEN IF downIsNoop(oldVersion)
            THEN Return(oldVersion /= 0, 0, ErrNil, TRUE, FALSE, obs)
            ELSE IF downFind(Len(migrations), oldVersion) = 0
            THEN Return(oldVersion /= runDownInit(oldVersion),
                        runDownInit(oldVersion),
                        errPreviousMigrationNotFound, TRUE, FALSE, obs)
            ELSE /\ newVersion' = runDownInit(oldVersion)
                 /\ i' = downFind(Len(migrations), oldVersion)
                 /\ Goto("downMark")
                 /\ UNCHANGED <<config, oldVersion, obs>>
       ELSE Return(oldVersion /= 0, 0, errUnrecognizedAction, TRUE, FALSE, obs)
    /\ UNCHANGED <<migrations, tableExists, rows>>

\* runUp: the loop up to setVersion(db, m.Version, true) of the next pending
\* migration, or to the end of the loop
RunUp ==
    /\ pc = "runUp"
    /\ LET k == upNext(i, oldVersion) IN
       IF k > Len(migrations)
       THEN /\ Return(oldVersion /= newVersion, newVersion, ErrNil, TRUE, FALSE, obs)
            /\ UNCHANGED rows
       ELSE /\ Len(rows) + 2 <= MaxRows
            /\ \E driverOk \in BOOLEAN :
                LET r == setVersion(config.Database, rows, migrations[k].Version,
                                    TRUE, driverOk) IN
                /\ rows' = r.table
                /\ IF r.err /= ErrNil
                   THEN Return(oldVersion /= newVersion, newVersion, r.err, TRUE,
                               FALSE, Failed(obs, "insert"))
                   ELSE /\ i' = k
                        /\ Goto("upProc")
                        /\ UNCHANGED <<config, oldVersion, newVersion, obs>>
    /\ UNCHANGED <<migrations, tableExists>>

\* err = m.Up(db.DB): the procedure succeeds or returns its error
UpProc ==
    /\ pc = "upProc"
    /\ \E ok \in BOOLEAN :
        LET o == Called(obs, UP, migrations[i].Version) IN
        IF ok
        THEN /\ obs' = o
             /\ Goto("upDone")
             /\ UNCHANGED <<config, oldVersion, newVersion, i>>
        ELSE Return(oldVersion /= newVersion, newVersion,
                    HandlerError(UP, migrations[i].Version), TRUE, TRUE, Failed(o, "handler"))
    /\ UNCHANGED <<migrations, tableExists, rows>>

\* setVersion(db, m.Version, false); newVersion = m.Version
UpDone ==
    /\ pc = "upDone"
    /\ \E driverOk \in BOOLEAN :
        LET r == setVersion(config.Database, rows, migrations[i].Version,
                            FALSE, driverOk) IN
        /\ rows' = r.table
        /\ IF r.err /= ErrNil
           THEN Return(oldVersion /= newVersion, newVersion, r.err, TRUE, TRUE,
                       Failed(obs, "insert"))
           ELSE /\ newVersion' = migrations[i].Version
                /\ i' = i + 1
                /\ Goto("runUp")
                /\ UNCHANGED <<config, oldVersion, obs>>
    /\ UNCHANGED <<migrations, tableExists>>

\* setVersion(db, m.Version-1, true)
DownMark ==
    /\ pc = "downMark"
    /\ Len(rows) + 2 <= MaxRows
    /\ \E driverOk \in BOOLEAN :
        LET r == setVersion(config.Database, rows, Found.Version - 1, TRUE,
                            driverOk) IN
        /\ rows' = r.table
        /\ IF r.err /= ErrNil
           THEN Return(oldVersion /= newVersion, newVersion, r.err, TRUE, FALSE,
                       Failed(obs, "insert"))
           ELSE /\ Goto("downProc")
                /\ UNCHANGED <<config, oldVersion, newVersion, i, obs>>
    /\ UNCHANGED <<migrations, tableExists>>

\* if m.Down != nil { err = m.Down(db.DB) }
DownProc ==
    /\ pc = "downProc"
    /\ IF Found.Down
       THEN \E ok \in BOOLEAN :
            LET o == Called(obs, DOWN, Found.Version) IN
            IF ok
            THEN /\ obs' = o
                 /\ Goto("downDone")
                 /\ UNCHANGED <<config, oldVersion, newVersion, i>>
            ELSE Return(oldVersion /= newVersion, newVersion,
                        HandlerError(DOWN, Found.Version), TRUE, TRUE, Failed(o, "handler"))
       ELSE /\ Goto("downDone")
            /\ UNCHANGED <<config, oldVersion, newVersion, i, obs>>
    /\ UNCHANGED <<migrations, tableExists, rows>>

\* setVersion(db, m.Version-1, false); newVersion = m.Version - 1
DownDone ==
    /\ pc = "downDone"
    /\ \E driverOk \in BOOLEAN :
        LET r == setVersion(config.Database, rows, Found.Version - 1, FALSE,
                            driverOk) IN
        /\ rows' = r.table
        /\ IF r.err /= ErrNil
           THEN Return(oldVersion /= newVersion, newVersion, r.err, TRUE, TRUE,
                       Failed(obs, "insert"))
           ELSE Return(oldVersion /= Found.Version - 1, Found.Version - 1, ErrNil,
                       TRUE, FALSE, obs)
    /\ UNCHANGED <<migrations, tableExists>>

\* the process dies inside Run: its registry and the locals of the call are
\* lost, the rows already inserted stay
Crash ==
    /\ pc /= "idle"
    /\ pc' = "idle"
    /\ migrations' = <<>>
    /\ result' = [noResult EXCEPT !.ret = "died"]
    /\ hist' = [hist EXCEPT
                   !.interrupted = hist.interrupted
                       \/ pc \in {"upProc", "upDone", "downProc", "downDone"},
                   !.clean = FALSE,
                   !.passed = {},
                   !.applied = {}]
    /\ config' = defaultConfig
    /\ oldVersion' = 0
    /\ newVersion' = 0
    /\ i' = 0
    /\ obs' = obsIdle
    /\ UNCHANGED <<tableExists, rows, other, older>>

Next ==
    \/ \E version \in Versions, up \in BOOLEAN, down \in BOOLEAN :
           /\ Len(migrations) < MaxMigrations
           /\ Register(version, up, down)
    \/ ResetRegistry
    \/ \E options \in Calls : Run(options)
    \/ CreateTable
    \/ GetVersion
    \/ RunMigrations
    \/ RunUp
    \/ UpProc
    \/ UpDone
    \/ DownMark
    \/ DownProc
    \/ DownDone
    \/ Crash

Spec == Init /\ [][Next]_vars

\* ---------------------------------------------- the functions called alone
\* the tests of getVersion and runMigrations call them directly, on a table
\* whose rows the test inserted and with a configuration the test built

\* the actions a test passes that are neither UP nor DOWN
OtherActions == {"foo", ""}

\* db.Exec(`INSERT INTO migrations (version, running) VALUES (...)`)
TestInsert(version, running) ==
    /\ pc = "idle"
    /\ Len(rows) < MaxInserts
    /\ tableExists' = TRUE
    /\ rows' = Append(rows, [version |-> version, running |-> running])
    /\ result' = noResult
    /\ UNCHANGED <<migrations, pc, config, oldVersion, newVersion, i, obs, hist,
                   other, older>>

\* currentVersion, err := getVersion(dtbs)
TestGetVersion ==
    /\ pc = "idle"
    /\ \E driverOk \in BOOLEAN :
        LET r == getVersion(rows, driverOk) IN
        result' = [noResult EXCEPT !.ret = "getVersion",
                                   !.newVersion = r.currentVersion,
                                   !.err = r.err,
                                   !.obs.failure =
                                       IF driverOk THEN "none" ELSE "select"]
    /\ UNCHANGED <<migrations, tableExists, rows, pc, config, oldVersion,
                   newVersion, i, obs, hist, other, older>>

NextGetVersion ==
    \/ \E version \in Versions, running \in BOOLEAN : TestInsert(version, running)
    \/ TestGetVersion

SpecGetVersion == Init /\ [][NextGetVersion]_vars

\* the tokens a caller passes: the four the switch names and one it does not
Tokens == {UP, DOWN, POSTGRES, MYSQL, "foo"}

\* the token sequences of up to MaxOptions tokens
Options == UNION {[1..n -> Tokens] : n \in 0..MaxOptions}

\* config := parseOptions(options), called by a test on an empty registry
\* before any table exists
TestParseOptions(options) ==
    /\ pc = "idle"
    /\ registryIsEmpty(migrations)
    /\ ~tableExists
    /\ config' = parseOptions(options)
    /\ result' = [noResult EXCEPT !.ret = "parseOptions", !.options = options]
    /\ UNCHANGED <<migrations, tableExists, rows, pc, oldVersion, newVersion, i,
                   obs, hist, other, older>>

\* Run called with any tokens; every migration has both procedures
NextOptions ==
    \/ \E options \in Options : TestParseOptions(options)
    \/ \E version \in Versions :
           /\ Len(migrations) < MaxMigrations
           /\ Register(version, TRUE, TRUE)
    \/ \E options \in Options : Run(options)
    \/ CreateTable
    \/ GetVersion
    \/ RunMigrations
    \/ RunUp
    \/ UpProc
    \/ UpDone
    \/ DownMark
    \/ DownProc
    \/ DownDone

SpecOptions == Init /\ [][NextOptions]_vars

\* the dialects a test builds its configuration with
Dialects == {POSTGRES, MYSQL, "foo"}

\* config := &configuration{Database: database, Action: UP};
\* err := createTable(dtbs)
TestCreateTable(database) ==
    /\ pc = "idle"
    /\ config' = [Action |-> UP, Database |-> database]
    /\ \E driverOk \in BOOLEAN :
        LET r == createTable(database, tableExists, rows, driverOk) IN
        /\ tableExists' = r.exists
        /\ rows' = r.table
        /\ result' = [noResult EXCEPT
                         !.ret = "createTable",
                         !.err = r.err,
                         !.obs.failure = IF r.err = DriverError("create")
                                         THEN "create" ELSE "none"]
    /\ UNCHANGED <<migrations, pc, oldVersion, newVersion, i, obs, hist, other, older>>

\* config := &configuration{Database: database, Action: UP};
\* err := setVersion(dtbs, version, running); the INSERT cannot succeed on a
\* table that does not exist
TestSetVersion(database, version, running) ==
    /\ pc = "idle"
    /\ Len(rows) < MaxInserts
    /\ config' = [Action |-> UP, Database |-> database]
    /\ \E driverOk \in BOOLEAN :
        /\ driverOk => tableExists
        /\ LET r == setVersion(database, rows, version, running, driverOk) IN
           /\ rows' = r.table
           /\ result' = [noResult EXCEPT
                            !.ret = "setVersion",
                            !.err = r.err,
                            !.obs.failure = IF r.err = DriverError("insert")
                                            THEN "insert" ELSE "none"]
    /\ UNCHANGED <<migrations, tableExists, pc, oldVersion, newVersion, i, obs,
                   hist, other, older>>

NextStatements ==
    \/ \E database \in Dialects : TestCreateTable(database)
    \/ \E database \in Dialects, version \in Versions, running \in BOOLEAN :
           TestSetVersion(database, version, running)

SpecStatements == Init /\ [][NextStatements]_vars

\* config := &configuration{Database: POSTGRES, Action: action};
\* runMigrations(dtbs, old)
TestRunMigrationsError(action, old) ==
    /\ pc = "idle"
    /\ config' = [Action |-> action, Database |-> POSTGRES]
    /\ oldVersion' = old
    /\ newVersion' = 0
    /\ pc' = "runMigrations"
    /\ obs' = [obsIdle EXCEPT !.rows0 = Len(rows)]
    /\ result' = noResult
    /\ UNCHANGED <<migrations, tableExists, rows, i, hist, other, older>>

NextRunMigrations ==
    \/ \E version \in Versions, up \in BOOLEAN, down \in BOOLEAN :
           /\ Len(migrations) < MaxMigrations
           /\ Register(version, up, down)
    \/ \E action \in OtherActions, old \in Versions :
           TestRunMigrationsError(action, old)
    \/ RunMigrations

SpecRunMigrations == Init /\ [][NextRunMigrations]_vars

\* ------------------------------------------------- two processes, one table
\* a second process of the same program calls Run(db) (POSTGRES, UP) on the
\* same database while the first is anywhere in its own Run; the driver and
\* the procedures of the second process do not fail

\* the Run of the first process has read its version and written no row yet
InWindow ==
    /\ pc \in {"runMigrations", "runUp"}
    /\ config.Action = UP
    /\ obs.exec = <<>>
    /\ Len(rows) = obs.rows0

\* the entries of the second process's registry runUp has still to apply
OtherPending ==
    {k \in other.i..Len(other.migrations) :
        ~upSkips(other.migrations[k], other.oldVersion)}

OtherReturn(e) ==
    other' = [other EXCEPT !.pc = "idle", !.ret = "returned", !.err = e]

\* Run up to createTable: the registry the program registered, sorted
OtherRun ==
    /\ other.pc = "idle"
    /\ ~registryIsEmpty(migrations)
    /\ other' = [otherIdle EXCEPT !.pc = "createTable",
                                  !.migrations = byVersion(migrations)]
    /\ UNCHANGED <<migrations, tableExists, rows, pc, config, oldVersion,
                   newVersion, i, obs, result, hist, older>>

\* err = createTable(dtbs)
OtherCreateTable ==
    /\ other.pc = "createTable"
    /\ LET r == createTable(POSTGRES, tableExists, rows, TRUE) IN
       tableExists' = r.exists /\ rows' = r.table
    /\ other' = [other EXCEPT !.pc = "getVersion"]
    /\ UNCHANGED <<migrations, pc, config, oldVersion, newVersion, i, obs,
                   result, hist, older>>

\* oldVersion, err := getVersion(dtbs), then runMigrations up to the loop of
\* runUp
OtherGetVersion ==
    /\ other.pc = "getVersion"
    /\ LET r == getVersion(rows, TRUE) IN
       IF r.err /= ErrNil
       THEN OtherReturn(r.err)
       ELSE other' = [other EXCEPT
                         !.pc = "runUp",
                         !.oldVersion = r.currentVersion,
                         !.newVersion = runUpInit(r.currentVersion),
                         !.i = 1,
                         !.raced = InWindow /\ oldVersion = r.currentVersion]
    /\ UNCHANGED <<migrations, tableExists, rows, pc, config, oldVersion,
                   newVersion, i, obs, result, hist, older>>

\* runUp: the loop up to setVersion(db, m.Version, true) of the next pending
\* migration, or its end
OtherRunUp ==
    /\ other.pc = "runUp"
    /\ IF OtherPending = {}
       THEN /\ OtherReturn(ErrNil)
            /\ UNCHANGED rows
       ELSE LET k == CHOOSE k \in OtherPending : \A j \in OtherPending : k <= j
            IN /\ Len(rows) + 2 <= MaxRows
               /\ rows' = setVersion(POSTGRES, rows,
                                     other.migrations[k].Version, TRUE, TRUE).table
               /\ other' = [other EXCEPT !.pc = "upProc", !.i = k]
    /\ UNCHANGED <<migrations, tableExists, pc, config, oldVersion, newVersion,
                   i, obs, result, hist, older>>

\* err = m.Up(db.DB)
OtherUpProc ==
    /\ other.pc = "upProc"
    /\ other' = [other EXCEPT
                    !.pc = "upDone",
                    !.exec = Append(other.exec,
                                    <<UP, other.migrations[other.i].Version>>)]
    /\ UNCHANGED <<migrations, tableExists, rows, pc, config, oldVersion,
                   newVersion, i, obs, result, hist, older>>

\* setVersion(db, m.Version, false); newVersion = m.Version
OtherUpDone ==
    /\ other.pc = "upDone"
    /\ rows' = setVersion(POSTGRES, rows, other.migrations[other.i].Version,
                          FALSE, TRUE).table
    /\ other' = [other EXCEPT !.pc = "runUp",
                              !.newVersion = other.migrations[other.i].Version,
                              !.i = other.i + 1]
    /\ UNCHANGED <<migrations, tableExists, pc, config, oldVersion, newVersion,
                   i, obs, result, hist, older>>

\* both Runs go UP: no down procedure is looked at, every migration has one
NextRace ==
    \/ \E version \in Versions, up \in BOOLEAN :
           /\ Len(migrations) < MaxMigrations
           /\ Register(version, up, TRUE)
    \/ Run(<<POSTGRES, UP>>)
    \/ CreateTable
    \/ GetVersion
    \/ RunMigrations
    \/ RunUp
    \/ UpProc
    \/ UpDone
    \/ OtherRun
    \/ OtherCreateTable
    \/ OtherGetVersion
    \/ OtherRunUp
    \/ OtherUpProc
    \/ OtherUpDone

SpecRace == Init /\ [][NextRace]_vars

\* ------------------------------------------------- the older snapshot, trek.go
\* the calls of the driver and of the procedures one runMigrations can make;
\* a budget f of calls that succeed at or above it lets none of them fail
NoFailure == 2 * MaxMigrations

\* createTable of trek.go: CREATE TABLE IF NOT EXISTS without the running column
olderCreateTable(database, existed, driverOk) ==
    IF database \notin {POSTGRES, MYSQL}
    THEN [err |-> errUnrecognizedDatabase, exists |-> existed]
    ELSE IF driverOk THEN [err |-> ErrNil, exists |-> TRUE]
    ELSE [err |-> DriverError("create"), exists |-> existed]

\* getVersion of trek.go: SELECT version ... ORDER BY id DESC LIMIT 1, no rows
\* read as version 0; table is the sequence of the versions inserted
olderGetVersion(table, driverOk) ==
    IF ~driverOk THEN [currentVersion |-> 0, err |-> DriverError("select")]
    ELSE IF table = <<>> THEN [currentVersion |-> 0, err |-> ErrNil]
    ELSE [currentVersion |-> table[Len(table)], err |-> ErrNil]

\* setVersion of trek.go: INSERT INTO migrations (version)
olderSetVersion(database, table, version, driverOk) ==
    IF database \notin {POSTGRES, MYSQL}
    THEN [err |-> errUnrecognizedDatabase, table |-> table]
    ELSE IF driverOk THEN [err |-> ErrNil, table |-> Append(table, version)]
    ELSE [err |-> DriverError("insert"), table |-> table]

\* what runUp and runDown of trek.go return and leave: the named results, the
\* table, the procedures called, and whether a call failed
olderOutcome(nv, e, table, exec, failed) ==
    [newVersion |-> nv, err |-> e, rows |-> table, exec |-> exec,
     failed |-> failed]

\* runUp of trek.go from the k-th migration on: newVersion is nv so far (0 at
\* the start, the function does not assign oldVersion to it), f calls succeed
\* before one fails
RECURSIVE olderRunUp(_, _, _, _, _, _, _)
olderRunUp(database, k, old, nv, table, exec, f) ==
    IF k > Len(migrations) THEN olderOutcome(nv, ErrNil, table, exec, FALSE)
    ELSE LET m == migrations[k] IN
         IF m.Version <= old
         THEN olderRunUp(database, k + 1, old, nv, table, exec, f)
         ELSE LET called == IF m.Up THEN Append(exec, <<UP, m.Version>>) ELSE exec
                  g == IF m.Up THEN f - 1 ELSE f
                  r == olderSetVersion(database, table, m.Version, g > 0)
              IN IF m.Up /\ f = 0
                 THEN olderOutcome(nv, HandlerError(UP, m.Version), table,
                                   called, TRUE)
                 ELSE IF r.err /= ErrNil
                 THEN olderOutcome(nv, r.err, table, called, TRUE)
                 ELSE olderRunUp(database, k + 1, old, m.Version, r.table,
                                 called, g - 1)

\* runDown of trek.go: newVersion is 0 until the last statement
olderRunDown(database, old, table, f) ==
    IF old = 0 THEN olderOutcome(0, ErrNil, table, <<>>, FALSE)
    ELSE LET k == downFind(Len(migrations), old) IN
         IF k = 0
         THEN olderOutcome(0, errPreviousMigrationNotFound, table, <<>>, FALSE)
         ELSE LET m == migrations[k]
                  called == IF m.Down THEN <<<<DOWN, m.Version>>>> ELSE <<>>
                  g == IF m.Down THEN f - 1 ELSE f
                  r == olderSetVersion(database, table, m.Version - 1, g > 0)
              IN IF m.Down /\ f = 0
                 THEN olderOutcome(0, HandlerError(DOWN, m.Version), table,
                                   called, TRUE)
                 ELSE olderOutcome(m.Version - 1, r.err, r.table, called,
                                   r.err /= ErrNil)

\* runMigrations of trek.go: the switch on db.Action
olderRunMigrations(cfg, old, table, f) ==
    IF cfg.Action = UP THEN olderRunUp(cfg.Database, 1, old, 0, table, <<>>, f)
    ELSE IF cfg.Action = DOWN THEN olderRunDown(cfg.Database, old, table, f)
    ELSE olderOutcome(0, errUnrecognizedAction, table, <<>>, FALSE)

\* Run of trek.go up to runMigrations, called with the options of the Run
\* that has just begun: the registry is sorted and not empty, createTable,
\* getVersion
OlderRun ==
    /\ pc = "createTable"
    /\ older.pc = "idle"
    /\ \E createOk \in BOOLEAN, selectOk \in BOOLEAN :
        LET c == olderCreateTable(config.Database, older.tableExists, createOk)
            v == olderGetVersion(older.rows, selectOk)
            begun == [older EXCEPT !.config = config, !.tableExists = c.exists,
                                   !.exec = <<>>, !.ret = "none"]
        IN older' =
             IF c.err /= ErrNil
             THEN [begun EXCEPT !.pc = "idle", !.ret = "returned",
                                !.didChange = FALSE, !.newVersion = 0,
                                !.err = c.err, !.clean = FALSE]
             ELSE IF v.err /= ErrNil
             THEN [begun EXCEPT !.pc = "idle", !.ret = "returned",
                                !.didChange = FALSE, !.newVersion = 0,
                                !.err = v.err, !.clean = FALSE]
             ELSE [begun EXCEPT !.pc = "runMigrations",
                                !.oldVersion = v.currentVersion]
    /\ UNCHANGED <<migrations, tableExists, rows, pc, config, oldVersion,
                   newVersion, i, obs, result, hist, other>>

\* newVersion, err = runMigrations(dtbs, oldVersion);
\* didChange = oldVersion != newVersion, once the other Run has returned
OlderRunMigrations ==
    /\ pc = "idle"
    /\ older.pc = "runMigrations"
    /\ \E f \in 0..NoFailure :
        LET r == olderRunMigrations(older.config, older.oldVersion,
                                    older.rows, f) IN
        /\ Len(r.rows) <= MaxRows
        /\ older' = [older EXCEPT
                        !.pc = "idle", !.ret = "returned", !.rows = r.rows,
                        !.exec = r.exec,
                        !.didChange = (older.oldVersion /= r.newVersion),
                        !.newVersion = r.newVersion, !.err = r.err,
                        !.oldVersion = 0,
                        !.clean = older.clean /\ ~r.failed]
    /\ UNCHANGED <<migrations, tableExists, rows, pc, config, oldVersion,
                   newVersion, i, obs, result, hist, other>>

\* the two snapshots called with the same registry, registered before the
\* first Run, and the same options, each on a database of its own; the calls
\* end with the first Run in which a statement or a procedure fails
BothBegun == older.pc = "runMigrations"

BothClean == hist.clean /\ older.clean

NextSnapshots ==
    \/ \E version \in Versions, up \in BOOLEAN, down \in BOOLEAN :
           /\ Len(migrations) < MaxMigrations
           /\ ~hist.ran
           /\ Register(version, up, down)
    \/ \E options \in Calls :
           /\ older.pc = "idle"
           /\ BothClean
           /\ ~registryIsEmpty(migrations)
           /\ Run(options)
    \/ BothClean /\ OlderRun
    \/ BothBegun /\ CreateTable
    \/ BothBegun /\ GetVersion
    \/ BothBegun /\ RunMigrations
    \/ BothBegun /\ RunUp
    \/ BothBegun /\ UpProc
    \/ BothBegun /\ UpDone
    \/ BothBegun /\ DownMark
    \/ BothBegun /\ DownProc
    \/ BothBegun /\ DownDone
    \/ OlderRunMigrations

SpecSnapshots == Init /\ [][NextSnapshots]_vars

\* ------------------------------------------------------------------ claims
\* what the formulas below read of the last Run
Returned == result.ret = "returned"

Registered == {migrations[k] : k \in 1..Len(migrations)}

\* the rows the last Run appended, and the table as that Run found it
RunRows == SubSeq(rows, result.obs.rows0 + 1, Len(rows))

RowsBefore == SubSeq(rows, 1, result.obs.rows0)

\* the current version when the last Run began, as a working SELECT reads it
Cur0 == getVersion(RowsBefore, TRUE)

Row(v, r) == [version |-> v, running |-> r]

\* the versions of S in ascending order
RECURSIVE Ascending(_)
Ascending(S) ==
    IF S = {} THEN <<>>
    ELSE LET x == CHOOSE x \in S : \A y \in S : x <= y
         IN <<x>> \o Ascending(S \ {x})

\* the calls of one direction on the versions of the sequence vs
CallsOf(dir, vs) == [k \in 1..Len(vs) |-> <<dir, vs[k]>>]

\* the two rows of every completed step at the versions of the sequence vs
RECURSIVE StepRows(_)
StepRows(vs) ==
    IF vs = <<>> THEN <<>>
    ELSE <<Row(Head(vs), TRUE), Row(Head(vs), FALSE)>> \o StepRows(Tail(vs))

\* C1: an UP Run in which no step fails calls exactly the up procedures of the
\* registered migrations whose version is strictly greater than the version
\* read at the start, each once, in strictly ascending version order, whatever
\* the order of registration.
C1_UpRunsPendingAscending ==
    (Returned /\ result.nonEmpty /\ result.action = UP /\ result.err = ErrNil)
    => result.obs.exec =
          CallsOf(UP, Ascending({m.Version : m \in
                     {x \in Registered : x.Version > result.old /\ x.Up}}))

\* an UP Run over a registry registered out of order ran two migrations
C1_Witness ==
    /\ Returned /\ result.action = UP /\ result.err = ErrNil
    /\ result.obs.unsorted0
    /\ Len(result.obs.exec) = 2

\* C2: when the up procedure of a pending migration m fails in an UP Run, Run
\* returns that procedure's error unchanged, newVersion is the version of the
\* last migration completed in this Run (the starting version if none),
\* didChange is true exactly when one completed, nothing after m is called,
\* and the rows of the migrations completed before m stay in the history.
C2_UpHandlerFailure ==
    (Returned /\ result.action = UP /\ result.obs.failure = "handler")
    => LET ex == result.obs.exec
           n == Len(ex)
           done == [k \in 1..(n - 1) |-> ex[k][2]]
       IN /\ n >= 1
          /\ ex[n][1] = UP
          /\ result.err = HandlerError(UP, ex[n][2])
          /\ result.newVersion = (IF n = 1 THEN Cur0.currentVersion ELSE ex[n - 1][2])
          /\ result.didChange = (n > 1)
          /\ RunRows = StepRows(done) \o <<Row(ex[n][2], TRUE)>>
          /\ \A k \in 1..(n - 1) : ex[k][2] < ex[n][2]

\* the second of two pending migrations failed after the first completed
C2_Witness ==
    /\ Returned /\ result.action = UP /\ result.obs.failure = "handler"
    /\ Len(result.obs.exec) = 2
    /\ result.didChange

\* the database refused the Run: an error, no procedure called, no row appended;
\* the error is MigrationAlreadyRunning unless the driver failed the CREATE
\* TABLE or the SELECT of this Run, and then it is the driver's error
Refused ==
    /\ result.err /= ErrNil
    /\ result.obs.exec = <<>>
    /\ Len(rows) = result.obs.rows0
    /\ result.obs.failure = "none" => result.err = errMigrationAlreadyRunning
    /\ result.obs.failure /= "none" =>
           result.err \in {DriverError("create"), DriverError("select")}

\* C3: when a Run stops after a step's running=true row was written and before
\* its running=false row (the procedure returned an error, recording the
\* completion failed, or the process died), the most recent row has
\* running=true, and the next Run over a non-empty registry refuses to
\* proceed: it calls no procedure and neither re-runs nor skips the step.
C3_InterruptedStepBlocks ==
    /\ hist.interrupted => LastRunning(rows)
    /\ (Returned /\ result.nonEmpty /\ result.obs.interrupted0) => Refused

\* a Run came back refused after an earlier Run was interrupted
C3_Witness ==
    /\ Returned /\ result.nonEmpty /\ result.obs.interrupted0
    /\ result.err = errMigrationAlreadyRunning
    /\ result.action = UP

\* the marker of a step is on the table and the Run that wrote it is over
Blocked == LastRunning(rows) /\ (pc = "idle" \/ obs.blocked0)

\* C4: once the most recent row has running=true, every later Run with a
\* registered migration, with either action, fails with
\* MigrationAlreadyRunning (the driver working), calls no procedure and
\* appends no row; no step of any Run leaves the blocked state.
C4_BlockedForever ==
    /\ [](Returned /\ result.nonEmpty /\ result.obs.blocked0 => Refused)
    /\ [][Blocked => Blocked']_vars

\* a DOWN Run was refused with the marker of an earlier step on the table
C4_Witness ==
    /\ Returned /\ result.nonEmpty /\ result.obs.blocked0
    /\ result.err = errMigrationAlreadyRunning
    /\ result.action = DOWN
    /\ LastRunning(rows)

\* C5: after an UP Run that returned no error, an immediately following UP Run
\* over the same registry (no statement of which fails) returns
\* didChange=false, the same newVersion and a nil error, calls no procedure
\* and appends no row.
C5_UpTwice ==
    (Returned /\ result.action = UP /\ result.obs.afterUp
        /\ result.obs.failure = "none")
    => /\ ~result.didChange
       /\ result.newVersion = result.obs.prevNew
       /\ result.err = ErrNil
       /\ result.obs.exec = <<>>
       /\ Len(rows) = result.obs.rows0

\* the second of two UP Runs came back at a version the first had reached
C5_Witness ==
    /\ Returned /\ result.action = UP /\ result.obs.afterUp
    /\ result.obs.failure = "none"
    /\ result.nonEmpty
    /\ result.newVersion >= 1
    /\ rows /= <<>>

\* the greatest registered version
MaxRegistered ==
    CHOOSE v \in {m.Version : m \in Registered} :
        \A m \in Registered : m.Version <= v

\* C6: with a fixed registry whose versions are all at least 1 and whose
\* migrations all have an up procedure, from every state reached by
\* failure-free UP and DOWN Runs, an UP Run (itself failure-free) returns a
\* nil error and newVersion equal to the greatest registered version, which
\* is the current version afterwards.
C6_UpReachesLatest ==
    (Returned /\ result.nonEmpty /\ result.action = UP
        /\ result.obs.failure = "none" /\ hist.clean
        /\ \A m \in Registered : m.Version >= 1 /\ m.Up)
    => /\ result.err = ErrNil
       /\ result.newVersion = MaxRegistered
       /\ getVersion(rows, TRUE) = [currentVersion |-> MaxRegistered, err |-> ErrNil]

\* an UP Run brought the database back to the latest version after a DOWN Run
C6_Witness ==
    /\ Returned /\ result.nonEmpty /\ result.action = UP
    /\ result.obs.failure = "none" /\ hist.clean
    /\ \A m \in Registered : m.Version >= 1 /\ m.Up
    /\ result.old >= 1
    /\ result.didChange
    /\ result.newVersion = MaxRegistered

\* a DOWN Run, no statement or procedure of which failed, that found the
\* database at a completed version
DownFrom(c) ==
    /\ Returned /\ result.nonEmpty /\ result.action = DOWN
    /\ result.obs.failure = "none"
    /\ Cur0 = [currentVersion |-> c, err |-> ErrNil]

\* the registered migrations at or below version c
AtOrBelow(c) == {m \in Registered : m.Version <= c}

\* C7: a DOWN Run at current version c > 0 in which no step fails is a single
\* step: it calls the down procedure of exactly one registered migration, the
\* one with the greatest version at or below c (nothing when that procedure
\* is absent), records running=true and then running=false at that
\* migration's version minus 1, and returns didChange=true with newVersion
\* that version minus 1; no other migration is reverted.
C7_DownSingleStep ==
    \A c \in 1..MaxVersion :
        (DownFrom(c) /\ AtOrBelow(c) /= {})
        => LET g == CHOOSE m \in AtOrBelow(c) :
                        \A x \in AtOrBelow(c) : x.Version <= m.Version
           IN /\ result.err = ErrNil
              /\ result.obs.exec = (IF g.Down THEN <<<<DOWN, g.Version>>>> ELSE <<>>)
              /\ RunRows = StepRows(<<g.Version - 1>>)
              /\ result.didChange
              /\ result.newVersion = g.Version - 1

\* a DOWN Run reverted the greater of two migrations at or below the version
C7_Witness ==
    \E c \in 1..MaxVersion :
        /\ DownFrom(c)
        /\ Cardinality(AtOrBelow(c)) = 2
        /\ Len(result.obs.exec) = 1
        /\ result.newVersion = c - 1

\* C8: a DOWN Run when the current version is 0 is a no-op: it returns
\* didChange=false, newVersion=0 and a nil error, calls no procedure and
\* appends no row.
C8_DownAtFloor ==
    DownFrom(0)
    => /\ ~result.didChange
       /\ result.newVersion = 0
       /\ result.err = ErrNil
       /\ result.obs.exec = <<>>
       /\ Len(rows) = result.obs.rows0

\* a DOWN Run found the database back at version 0 after an earlier DOWN
C8_Witness ==
    /\ DownFrom(0)
    /\ rows /= <<>>
    /\ \E m \in Registered : m.Version >= 1

\* the migration whose step wrote the current version c of the table the last
\* Run found: c itself when an up step raised the version to c, c + 1 when a
\* down step lowered it to c
Producer0 ==
    LET n == result.obs.rows0
        c == rows[n].version
        before == IF n >= 3 THEN rows[n - 2].version ELSE 0
    IN IF c > before THEN c ELSE c + 1

\* the DOWN Run failed with PreviousMigrationNotFound and left everything as
\* it was at version c
NotFoundAt(c) ==
    /\ result.err = errPreviousMigrationNotFound
    /\ ~result.didChange
    /\ result.newVersion = c
    /\ result.obs.exec = <<>>
    /\ Len(rows) = result.obs.rows0

C10_DownHandlerFailure ==
    (Returned /\ result.action = DOWN /\ result.obs.failure = "handler")
    => LET ex == result.obs.exec
       IN /\ Len(ex) = 1
          /\ ex[1][1] = DOWN
          /\ result.err = HandlerError(DOWN, ex[1][2])
          /\ ~result.didChange
          /\ Cur0.err = ErrNil
          /\ result.newVersion = Cur0.currentVersion

\* the down procedure of the migration at the current version failed
C10_Witness ==
    /\ Returned /\ result.action = DOWN /\ result.obs.failure = "handler"
    /\ result.newVersion >= 1
    /\ result.err = HandlerError(DOWN, result.newVersion)

\* the table is a sequence of steps: a running=true row, then the
\* running=false row of the same version, the last step possibly open
Paired(table) ==
    \A k \in 1..Len(table) :
        IF table[k].running
        THEN k < Len(table) => table[k + 1] = Row(table[k].version, FALSE)
        ELSE k > 1 /\ table[k - 1] = Row(table[k].version, TRUE)

\* C11: in every history of Runs made one after another, a procedure is called
\* only while the last row is the running=true row of its step (pc at the call
\* and, when the call has returned, before the running=false row), every
\* running=false row directly follows a running=true row of the same version,
\* and every running=true row but the last is directly followed by the
\* running=false row of the same version.
C11_StepsArePaired ==
    /\ Paired(rows)
    /\ pc \in {"upProc", "upDone"}
          => rows /= <<>> /\ rows[Len(rows)] = Row(migrations[i].Version, TRUE)
    /\ pc \in {"downProc", "downDone"}
          => rows /= <<>> /\ rows[Len(rows)] = Row(Found.Version - 1, TRUE)

\* two completed steps are followed by a step whose procedure is about to run
C11_Witness ==
    /\ Len(rows) = 5
    /\ pc \in {"upProc", "downProc"}
    /\ rows[2].version /= rows[4].version

\* C12: the version history is append-only: every step of every Run, failed or
\* not, leaves the table as it is or appends one row after all the rows there
\* are; no row already written is changed or removed.
C12_AppendOnly ==
    [][\/ rows' = rows
       \/ /\ Len(rows') = Len(rows) + 1
          /\ SubSeq(rows', 1, Len(rows)) = rows]_vars

\* the table holds the rows of a completed step, of a step a procedure failed
\* in, and no row of the Run that was refused afterwards
C12_Witness ==
    /\ Returned /\ result.err = errMigrationAlreadyRunning
    /\ Len(rows) = 3
    /\ result.obs.rows0 = 3
    /\ result.obs.interrupted0

\* C13: whenever a Run over a non-empty registry returns a nil error,
\* newVersion is the version of the last row (0 when the table has no row),
\* that row has running=false, and didChange is true exactly when this Run
\* appended rows.
C13_LastRowIsAuthoritative ==
    (Returned /\ result.nonEmpty /\ result.err = ErrNil)
    => /\ result.newVersion = (IF rows = <<>> THEN 0 ELSE rows[Len(rows)].version)
       /\ ~LastRunning(rows)
       /\ result.didChange = (RunRows /= <<>>)

\* a DOWN Run after an UP Run went from version 2 to version 1
C13_Witness ==
    /\ Returned /\ result.nonEmpty /\ result.err = ErrNil
    /\ result.obs.afterUp
    /\ result.action = DOWN /\ result.didChange
    /\ result.old = 2 /\ result.newVersion = 1
    /\ rows[Len(rows)] = Row(1, FALSE)

\* the migration m with do-nothing procedures in place of the absent ones
withProcedures(m) == [m EXCEPT !.Up = TRUE, !.Down = TRUE]

\* the versions runUp applies from the version old over the sorted registry
\* reg when every absent procedure is replaced by a do-nothing one
RECURSIVE upPlan(_, _)
upPlan(reg, old) ==
    IF reg = <<>> THEN <<>>
    ELSE (IF upSkips(withProcedures(Head(reg)), old) THEN <<>>
          ELSE <<Head(reg).Version>>) \o upPlan(Tail(reg), old)

\* C14: an absent procedure is a no-op: a Run in which no step fails returns
\* the result and writes the rows of the same Run with every absent procedure
\* replaced by one that does nothing and succeeds. For UP that is a step for
\* every registered version above the version read, newVersion the last of
\* them; for DOWN the step of the migration runDown selects, whether or not it
\* has a down procedure.
C14_AsStated ==
    (Returned /\ result.nonEmpty /\ result.err = ErrNil)
    => IF result.action = UP
       THEN LET plan == upPlan(migrations, result.old)
            IN /\ RunRows = StepRows(plan)
               /\ result.newVersion =
                     (IF plan = <<>> THEN result.old ELSE plan[Len(plan)])
               /\ result.didChange = (plan /= <<>>)
       ELSE IF downIsNoop(result.old)
       THEN RunRows = <<>> /\ result.newVersion = result.old /\ ~result.didChange
       ELSE LET k == downFind(Len(migrations), result.old)
            IN /\ k > 0
               /\ RunRows = StepRows(<<migrations[k].Version - 1>>)
               /\ result.newVersion = migrations[k].Version - 1
               /\ result.didChange

\* C16: a Run called with an empty registry (the only step from an idle state
\* with an empty registry that leaves the registry empty) returns at once
\* didChange=false, newVersion=0 and a nil error, for either action and
\* whatever the table holds; it calls nothing, does not create the table and
\* appends no row.
C16_EmptyRegistryRun ==
    [][(pc = "idle" /\ migrations = <<>> /\ migrations' = <<>>)
       => /\ pc' = "idle"
          /\ result'.ret = "returned"
          /\ ~result'.didChange
          /\ result'.newVersion = 0
          /\ result'.err = ErrNil
          /\ result'.obs.exec = <<>>
          /\ UNCHANGED <<tableExists, rows>>]_vars

\* a DOWN Run with an empty registry returned over a table whose last row is
\* the running=true row of version 2
C16_Witness ==
    /\ Returned /\ ~result.nonEmpty
    /\ result.action = DOWN
    /\ rows /= <<>> /\ rows[Len(rows)] = Row(2, TRUE)
    /\ ~result.didChange /\ result.newVersion = 0 /\ result.err = ErrNil

\* the versions of the registered migrations
RegisteredVersions == {m.Version : m \in Registered}

\* the step is a call of Register: result.reg afterwards is what it returned
RegisterCalled == result'.reg.called /\ result' /= result

\* C17: whatever Register calls and Runs have been made since the registry
\* was empty, no two entries of the registry have the same version and the
\* registry has as many entries as distinct versions were passed to Register;
\* every call of Register with a version that is not registered returns nil
\* and appends one entry with that version, leaving the others as they are.
C17_RegistryHasUniqueVersions ==
    /\ [](/\ \A j, k \in 1..Len(migrations) :
                migrations[j].Version = migrations[k].Version => j = k
          /\ Len(migrations) = Cardinality(hist.passed))
    /\ [][(RegisterCalled /\ result'.reg.version \notin RegisteredVersions)
          => /\ result'.reg.err = ErrNil
             /\ Len(migrations') = Len(migrations) + 1
             /\ SubSeq(migrations', 1, Len(migrations)) = migrations
             /\ migrations'[Len(migrations')].Version = result'.reg.version]_vars

\* version 1 is registered after version 2 and after a Run went up to 2
C17_Witness ==
    /\ result.reg = registerReturned(1, ErrNil)
    /\ Len(migrations) = 2
    /\ migrations[1].Version = 2 /\ migrations[2].Version = 1
    /\ hist.passed = {1, 2}
    /\ rows /= <<>> /\ rows[Len(rows)] = Row(2, FALSE)

\* C18: a call of Register with a version that is registered returns
\* errVersionAlreadyRegistered and leaves the registry as it is: the same
\* entries in the same order, with the procedures they were registered with.
C18_DuplicateIsRefused ==
    [][(RegisterCalled /\ result'.reg.version \in RegisteredVersions)
       => /\ result'.reg.err = errVersionAlreadyRegistered
          /\ migrations' = migrations]_vars

\* version 1, registered with both procedures, was passed to Register again
\* after an UP Run applied it; the duplicate call was refused
C18_Witness ==
    /\ result.reg = registerReturned(1, errVersionAlreadyRegistered)
    /\ migrations = <<migration(1, TRUE, TRUE)>>
    /\ Returned /\ result.action = UP /\ result.newVersion = 1

\* C19: runMigrations called with an action that is neither UP nor DOWN fails
\* with errUnrecognizedAction, calls no procedure, appends no row and returns
\* as newVersion the current version it was given, whatever that version is.
C19_AsStated ==
    (Returned /\ result.action \in OtherActions)
    => /\ result.err = errUnrecognizedAction
       /\ result.obs.exec = <<>>
       /\ RunRows = <<>>
       /\ result.newVersion = result.old

\* C20: getVersion, when the driver does not fail, returns version 0 and a nil
\* error on a table without rows; otherwise the version of the last row and a
\* nil error when that row has running=false, and
\* errMigrationAlreadyRunning when it has running=true, whatever the rows
\* before it are.
C20_GetVersionReadsLastRow ==
    (result.ret = "getVersion" /\ result.obs.failure = "none")
    => IF rows = <<>>
       THEN result.newVersion = 0 /\ result.err = ErrNil
       ELSE IF rows[Len(rows)].running
       THEN result.err = errMigrationAlreadyRunning
       ELSE /\ result.newVersion = rows[Len(rows)].version
            /\ result.err = ErrNil

\* getVersion returned version 1 from a table whose earlier rows are
\* running=true rows of version 2
C20_Witness ==
    /\ result.ret = "getVersion"
    /\ rows = <<Row(2, TRUE), Row(2, TRUE), Row(1, FALSE)>>
    /\ result.newVersion = 1 /\ result.err = ErrNil

\* C15: the running flag is read once, by getVersion, and is no lock: when a
\* second Run reads its version while the first has read the same version and
\* written no row yet, and no step of either fails, the running=true row of
\* the one does not stop the other: both Runs return a nil error having called
\* the up procedure of every migration above that version, the same ones.
C15_FlagIsNoLock ==
    (/\ Returned /\ result.action = UP /\ result.err = ErrNil
     /\ other.ret = "returned" /\ other.raced
     /\ other.migrations = migrations)
    => /\ other.err = ErrNil
       /\ other.oldVersion = result.old
       /\ other.exec = result.obs.exec
       /\ other.exec =
             CallsOf(UP, Ascending({m.Version : m \in
                        {x \in Registered : x.Version > result.old /\ x.Up}}))

\* both Runs read version 0, both wrote the running=true row of version 1
\* before either wrote its running=false row, and both called its up procedure
C15_Witness ==
    /\ Returned /\ result.err = ErrNil
    /\ other.ret = "returned" /\ other.err = ErrNil /\ other.raced
    /\ result.obs.exec = <<<<UP, 1>>>>
    /\ other.exec = <<<<UP, 1>>>>
    /\ rows = <<Row(1, TRUE), Row(1, TRUE), Row(1, FALSE), Row(1, FALSE)>>

\* C21: createTable and setVersion called with a dialect that is neither
\* postgres nor mysql return errUnrecognizedDatabase and issue no statement:
\* whether the table exists and the rows it holds are as before the call.
C21_UnrecognizedDatabase ==
    [][(/\ result'.ret \in {"createTable", "setVersion"}
        /\ config'.Database \notin {POSTGRES, MYSQL})
       => /\ result'.err = errUnrecognizedDatabase
          /\ UNCHANGED <<tableExists, rows>>]_vars

\* setVersion was called with the dialect foo on a table that holds two rows
C21_Witness ==
    /\ result.ret = "setVersion"
    /\ config.Database = "foo"
    /\ result.err = errUnrecognizedDatabase
    /\ tableExists /\ Len(rows) = 2

\* C23: createTable with postgres or mysql, when the driver does not fail,
\* returns nil whether or not the table exists and leaves the rows of a table
\* that exists as they are; calling it twice gives what calling it once gives.
C23_CreateTableIsIdempotent ==
    /\ [](\A database \in {POSTGRES, MYSQL} :
            LET once == createTable(database, tableExists, rows, TRUE)
                twice == createTable(database, once.exists, once.table, TRUE)
            IN once.err = ErrNil /\ twice = once)
    /\ [][(/\ result'.ret = "createTable"
           /\ config'.Database \in {POSTGRES, MYSQL}
           /\ result'.obs.failure = "none")
          => /\ result'.err = ErrNil
             /\ tableExists'
             /\ rows' = rows]_vars

\* createTable returned nil on a table that existed and held three rows
C23_Witness ==
    /\ result.ret = "createTable"
    /\ config.Database = MYSQL
    /\ result.err = ErrNil
    /\ tableExists /\ Len(rows) = 3

\* the tokens of the sequence options
TokensOf(options) == {options[k] : k \in 1..Len(options)}

\* options without the tokens the switch does not name
Recognized(options) ==
    SelectSeq(options, LAMBDA t : t \in {UP, DOWN, POSTGRES, MYSQL})

\* C22: parseOptions returns a configuration for every token sequence: the
\* default {UP, POSTGRES} when the sequence holds none of the four tokens
\* (the empty sequence too), {DOWN, MYSQL} when its recognized tokens are
\* mysql and down in either order, and always what it returns for the
\* sequence with the unrecognized tokens taken out.
C22_ParseOptionsDefaults ==
    result.ret = "parseOptions"
    => LET known == Recognized(result.options)
       IN /\ known = <<>> => config = [Action |-> UP, Database |-> POSTGRES]
          /\ known \in {<<MYSQL, DOWN>>, <<DOWN, MYSQL>>}
                => config = [Action |-> DOWN, Database |-> MYSQL]
          /\ config = parseOptions(known)

\* down and mysql were passed in that order with an unrecognized token between
C22_Witness ==
    /\ result.ret = "parseOptions"
    /\ result.options = <<DOWN, "foo", MYSQL>>
    /\ config = [Action |-> DOWN, Database |-> MYSQL]

\* C29: the tokens down and mysql are sticky: parseOptions returns the action
\* DOWN exactly when down occurs in the sequence and UP otherwise, the
\* database MYSQL exactly when mysql occurs and POSTGRES otherwise, whatever
\* comes after them; Run called with down then up goes DOWN.
C29_DownAndMysqlAreSticky ==
    /\ [](result.ret = "parseOptions"
          => /\ config.Action = (IF DOWN \in TokensOf(result.options)
                                 THEN DOWN ELSE UP)
             /\ config.Database = (IF MYSQL \in TokensOf(result.options)
                                   THEN MYSQL ELSE POSTGRES))
    /\ [][(Run(<<DOWN, UP>>) /\ ~registryIsEmpty(migrations))
          => config'.Action = DOWN]_vars

\* down was followed by up and mysql by postgres
C29_Witness ==
    /\ result.ret = "parseOptions"
    /\ result.options = <<DOWN, MYSQL, UP>>
    /\ config = [Action |-> DOWN, Database |-> MYSQL]

\* C30: whatever tokens Run is called with, the configuration of the call has
\* an action in {UP, DOWN} and a database in {POSTGRES, MYSQL}, and Run
\* returns neither errUnrecognizedDatabase nor errUnrecognizedAction.
C30_RunNeverUnrecognized ==
    /\ pc /= "idle" => /\ config.Action \in {UP, DOWN}
                       /\ config.Database \in {POSTGRES, MYSQL}
    /\ Returned => result.err \notin {errUnrecognizedDatabase,
                                      errUnrecognizedAction}

\* a Run called with tokens went DOWN from version 2 and returned nil
C30_Witness ==
    /\ Returned /\ result.nonEmpty
    /\ result.action = DOWN /\ result.err = ErrNil
    /\ result.old = 2 /\ result.didChange

\* C24: a DOWN Run at current version c > 0 in which no step fails returns
\* errPreviousMigrationNotFound exactly when no registered migration has a
\* version at or below c, and then with didChange=false, newVersion=c, no
\* call and no row; when some registered version is at or below c it reverts
\* the migration with the greatest such version, equal to c or not.
C24_NotFoundIffNoneAtOrBelow ==
    \A c \in 1..MaxVersion :
        DownFrom(c)
        => /\ (result.err = errPreviousMigrationNotFound) = (AtOrBelow(c) = {})
           /\ AtOrBelow(c) = {} => NotFoundAt(c)
           /\ AtOrBelow(c) /= {}
                 => /\ result.err = ErrNil
                    /\ result.newVersion + 1 \in {m.Version : m \in AtOrBelow(c)}
                    /\ \A m \in AtOrBelow(c) : m.Version <= result.newVersion + 1
                    /\ RunRows = StepRows(<<result.newVersion>>)

\* a DOWN Run at version 2 reverted the migration of version 1, none being
\* registered at version 2
C24_Witness ==
    /\ DownFrom(2)
    /\ result.err = ErrNil
    /\ result.newVersion = 0
    /\ \A m \in Registered : m.Version /= 2

\* the registry has been the same since the first Run began and no statement
\* or procedure of any Run failed
FixedAndFailureFree == hist.clean /\ Registered /= {}

\* the lowest registered version
MinRegistered ==
    CHOOSE v \in RegisteredVersions : \A w \in RegisteredVersions : v <= w

\* C25: with a fixed non-empty registry and no failing step, from every
\* version reachable by UP and DOWN Runs, each DOWN Run at a version above 0
\* succeeds and strictly lowers the current version (so that repeated DOWN
\* Runs reach version 0 and are no-ops from then on).
C25_AsStated ==
    \A c \in 1..MaxVersion :
        (FixedAndFailureFree /\ DownFrom(c))
        => /\ result.err = ErrNil
           /\ result.newVersion < c

\* what runDown does instead: with a fixed non-empty registry whose lowest
\* version is 1 and no failing step, each DOWN Run at a version c above 0
\* succeeds, changes the version and leaves it at a completed version that is
\* below c and not below 0, and a DOWN Run at version 0 is a no-op. With a
\* lowest version L above 1 the DOWN Run at L - 1 fails with
\* PreviousMigrationNotFound and the version stays L - 1.
DownReachesFloorFromOne ==
    (FixedAndFailureFree /\ MinRegistered >= 1)
    => /\ \A c \in 1..MaxVersion :
            (DownFrom(c) /\ MinRegistered = 1)
            => /\ result.err = ErrNil
               /\ result.didChange
               /\ result.newVersion >= 0 /\ result.newVersion < c
               /\ getVersion(rows, TRUE) =
                      [currentVersion |-> result.newVersion, err |-> ErrNil]
       /\ (DownFrom(0) /\ MinRegistered = 1)
            => /\ result.err = ErrNil /\ ~result.didChange
               /\ result.newVersion = 0
               /\ Len(rows) = result.obs.rows0
       /\ (MinRegistered > 1 /\ DownFrom(MinRegistered - 1))
            => NotFoundAt(MinRegistered - 1)

\* the second of two DOWN Runs over the registry {1, 2} took the version
\* from 1 to the floor
DownReachedFloorFromOne ==
    /\ FixedAndFailureFree /\ RegisteredVersions = {1, 2}
    /\ DownFrom(1)
    /\ ~result.obs.afterUp /\ result.obs.prevNew = 1
    /\ result.newVersion = 0

\* the calls of exec, made in order on the applied set s, call no up procedure
\* of an applied version and no down procedure of a version that is not applied
RECURSIVE CallsConsistent(_, _)
CallsConsistent(s, exec) ==
    \/ exec = <<>>
    \/ LET call == Head(exec) IN
       /\ call[1] = UP => call[2] \notin s
       /\ call[1] = DOWN => call[2] \in s
       /\ CallsConsistent(appliedAfter(s, <<call>>), Tail(exec))

\* every registered migration has a version of at least 1 and both procedures
FromOneWithProcedures ==
    \A m \in Registered : m.Version >= 1 /\ m.Up /\ m.Down

\* C26: with a fixed registry whose versions are all at least 1 and whose
\* migrations have both procedures, after every failure-free sequence of UP
\* and DOWN Runs the set of versions whose up procedure was executed more
\* recently than their down procedure is exactly the set of registered
\* versions at or below the current version; no Run executes an up procedure
\* of an applied migration or a down procedure of one that is not applied.
C26_AppliedSetIsConsistent ==
    (hist.clean /\ FromOneWithProcedures)
    => /\ CallsConsistent(hist.applied, obs.exec)
       /\ pc = "idle"
            => /\ getVersion(rows, TRUE).err = ErrNil
               /\ hist.applied =
                      {m.Version : m \in
                           AtOrBelow(getVersion(rows, TRUE).currentVersion)}
       /\ Returned => CallsConsistent(result.obs.applied0, result.obs.exec)

\* a DOWN Run after an UP Run over the registry {1, 2} reverted 2 and left 1
\* applied
C26_Witness ==
    /\ hist.clean /\ FromOneWithProcedures /\ RegisteredVersions = {1, 2}
    /\ Returned /\ result.action = DOWN
    /\ result.obs.applied0 = {1, 2}
    /\ result.obs.exec = <<<<DOWN, 2>>>>
    /\ hist.applied = {1}
    /\ getVersion(rows, TRUE).currentVersion = 1

\* an UP Run over a non-empty registry that found the database at the
\* completed version c
UpFrom(c) ==
    /\ Returned /\ result.nonEmpty /\ result.action = UP
    /\ Cur0 = [currentVersion |-> c, err |-> ErrNil]

\* C27: a migration whose version is at or below the current version when an
\* UP Run begins, registered before or after the database reached that
\* version, is not executed by the Run and causes no error: the Run calls up
\* procedures of versions above the current version only, and when no
\* statement or procedure fails it returns a nil error and a newVersion not
\* below the current version; when every registered version is at or below
\* the current version it changes nothing.
C27_LateMigrationIsSkipped ==
    \A c \in (-1)..MaxVersion :
        UpFrom(c)
        => /\ \A k \in 1..Len(result.obs.exec) :
                  /\ result.obs.exec[k][1] = UP
                  /\ result.obs.exec[k][2] > c
           /\ result.obs.failure = "none"
                => /\ result.err = ErrNil
                   /\ result.newVersion >= c
                   /\ \A k \in 1..Len(RunRows) : RunRows[k].version > c
           /\ (result.obs.failure = "none" /\ AtOrBelow(c) = Registered)
                => /\ ~result.didChange
                   /\ result.newVersion = c
                   /\ result.obs.exec = <<>>
                   /\ Len(rows) = result.obs.rows0

\* an UP Run at version 2 over a registry to which migration 1, never applied,
\* was added after the database had reached version 2
C27_Witness ==
    /\ UpFrom(2)
    /\ RegisteredVersions = {1, 2}
    /\ \A m \in Registered : m.Up
    /\ rows /= <<>> /\ \A k \in 1..Len(rows) : rows[k].version = 2
    /\ result.obs.failure = "none"
    /\ result.obs.exec = <<>>
    /\ result.err = ErrNil

\* C28: for every registry that Register accepts and every sequence of Runs,
\* every version written to the history and every newVersion returned by Run
\* is greater than or equal to 0.
C28_AsStated ==
    /\ \A k \in 1..Len(rows) : rows[k].version >= 0
    /\ Returned => result.newVersion >= 0

\* what holds instead: over a registry whose versions are all at least 1,
\* fixed since the first Run, no row and no newVersion is below 0
VersionsFromOneStayNonNegative ==
    (hist.clean /\ \A m \in Registered : m.Version >= 1) => C28_AsStated

\* two DOWN Runs after an UP Run over the fixed registry {0, 2} left the
\* history at version -1
NegativeVersionReached ==
    /\ hist.clean /\ RegisteredVersions = {0, 2}
    /\ Returned /\ result.action = DOWN /\ result.err = ErrNil
    /\ result.newVersion = -1
    /\ rows[Len(rows)] = Row(-1, FALSE)

\* the errors of createTable and getVersion, which Run returns before it
\* calls runMigrations
BeforeEngineErrors ==
    {errUnrecognizedDatabase, DriverError("create"), DriverError("select"),
     errMigrationAlreadyRunning}

\* C31: when Run fails before the engine starts, that is when createTable
\* fails or getVersion fails (errMigrationAlreadyRunning included), it returns
\* didChange=false and newVersion=0, whatever version the history records,
\* and it calls no procedure and appends no row.
C31_FailureBeforeEngine ==
    (Returned /\ result.nonEmpty)
    => /\ (~result.engine) = (result.err \in BeforeEngineErrors)
       /\ result.err \in BeforeEngineErrors
            => /\ ~result.didChange
               /\ result.newVersion = 0
               /\ result.obs.exec = <<>>
               /\ Len(rows) = result.obs.rows0

\* a Run refused with errMigrationAlreadyRunning returned newVersion 0 over a
\* history whose last row records version 2
C31_Witness ==
    /\ Returned /\ result.nonEmpty
    /\ result.err = errMigrationAlreadyRunning
    /\ rows /= <<>> /\ rows[Len(rows)].version = 2
    /\ result.newVersion = 0

\* both snapshots have returned from the same call of Run, no statement or
\* procedure of either has failed so far, and the registry has versions of at
\* least 1 and both procedures
BothReturned ==
    /\ pc = "idle" /\ older.pc = "idle"
    /\ Returned /\ result.nonEmpty /\ older.ret = "returned"
    /\ BothClean
    /\ FromOneWithProcedures

\* the current version each snapshot leaves in its history
CurrentVersions ==
    <<getVersion(rows, TRUE).currentVersion,
      olderGetVersion(older.rows, TRUE).currentVersion>>

\* C32: for every fixed registry with versions of at least 1 and both
\* procedures, and every sequence of UP and DOWN Runs in which no step fails,
\* the snapshot without the running flag (trek.go) and the snapshot with it
\* return the same (didChange, newVersion, err) at every Run and leave the
\* same current version.
C32_AsStated ==
    BothReturned
    => /\ older.didChange = result.didChange
       /\ older.newVersion = result.newVersion
       /\ older.err = result.err
       /\ CurrentVersions[1] = CurrentVersions[2]

\* what the snapshots agree on: the procedures called, the error, the
\* current version left, and the whole result of every Run that called a
\* procedure; a Run that finds nothing to do returns (false, c, err) from the
\* current version c in the newer snapshot and (c /= 0, 0, err) in trek.go
SnapshotsAgreeOnSteps ==
    BothReturned
    => /\ older.exec = result.obs.exec
       /\ older.err = result.err
       /\ CurrentVersions[1] = CurrentVersions[2]
       /\ result.obs.exec /= <<>>
            => /\ older.didChange = result.didChange
               /\ older.newVersion = result.newVersion
       /\ result.obs.exec = <<>>
            => /\ ~result.didChange
               /\ result.newVersion = CurrentVersions[1]
               /\ older.newVersion = 0
               /\ older.didChange = (CurrentVersions[2] /= 0)

\* a second UP Run over the registry {1}: (false, 1, nil) from the newer
\* snapshot, (true, 0, nil) from trek.go
SnapshotsDisagreed ==
    /\ BothReturned /\ RegisteredVersions = {1}
    /\ result.action = UP
    /\ <<result.didChange, result.newVersion, result.err>> = <<FALSE, 1, ErrNil>>
    /\ <<older.didChange, older.newVersion, older.err>> = <<TRUE, 0, ErrNil>>
    /\ CurrentVersions = <<1, 1>>

====
